---- MODULE Spec2Model ----
(***************************************************************************)
(* The template harness of project-templates/test-templates.py: the click  *)
(* commands generate, validate, clean and show, the per-template           *)
(* validators and the server probe.  Every external command (cookiecutter, *)
(* make, uv, curl, the spawned server) is the environment: its outcome is  *)
(* chosen nondeterministically each time the harness runs it.              *)
(***************************************************************************)
EXTENDS Integers, Sequences, FiniteSets, TLC

\* Number of harness invocations run one after the other on the same disk.
MaxInvocations == 2

(***************************************************************************)
(* Constants of the script                                                 *)
(***************************************************************************)

\* TEMPLATES.keys(), in the dict's insertion order.
TEMPLATES == <<"go", "python", "cli", "bayesian">>

\* click.Choice(["go", "python", "cli", "bayesian"]) of --only.
Keys == {"go", "python", "cli", "bayesian"}

\* --only not given (only is None).
NoOnly == "none"

\* A step of a validator: kind "check" is run_with_output (check=True),
\* "tolerant" is subprocess.run without check whose return code the caller
\* classifies, "probe" is Popen / sleep / curl / terminate+wait.
Step(name, kind) == [name |-> name, kind |-> kind]

validate_go ==
  << Step("make help", "check"),
     Step("go mod tidy", "check"),
     Step("make build", "check"),
     Step("CLI --help", "check"),
     Step("make test", "tolerant"),
     Step("server", "probe") >>

validate_python_service ==
  << Step("make help", "check"),
     Step("uv sync --all-extras", "check"),
     Step("CLI --help", "check"),
     Step("make test", "check"),
     Step("make lint", "check"),
     Step("server", "probe") >>

\* Mutant: the lint step declared before the test suite.
validate_python_cli_lint_first ==
  << Step("make help", "check"),
     Step("simple.py --help", "check"),
     Step("simple.py hello", "check"),
     Step("simple.py add", "check"),
     Step("uv sync --all-extras", "check"),
     Step("test-cli --help", "check"),
     Step("test-cli hello", "check"),
     Step("test-cli foo do-something", "check"),
     Step("test-cli bar greet", "check"),
     Step("make lint", "check"),
     Step("make test", "check") >>

validate_python_cli ==
  << Step("make help", "check"),
     Step("simple.py --help", "check"),
     Step("simple.py hello", "check"),
     Step("simple.py add", "check"),
     Step("uv sync --all-extras", "check"),
     Step("test-cli --help", "check"),
     Step("test-cli hello", "check"),
     Step("test-cli foo do-something", "check"),
     Step("test-cli bar greet", "check"),
     Step("make test", "check"),
     Step("make lint", "check") >>

\* Mutant: the test suite run a second time after it returned.
validate_bayesian_test_twice ==
  << Step("make help", "check"),
     Step("uv sync --all-extras", "check"),
     Step("CLI --help", "check"),
     Step("CLI experiments --help", "check"),
     Step("make test", "check"),
     Step("make test", "check"),
     Step("make lint", "check"),
     Step("server", "probe") >>

validate_bayesian ==
  << Step("make help", "check"),
     Step("uv sync --all-extras", "check"),
     Step("CLI --help", "check"),
     Step("CLI experiments --help", "check"),
     Step("make test", "check"),
     Step("make lint", "check"),
     Step("server", "probe") >>

VALIDATORS(key) ==
  CASE key = "go" -> validate_go
    [] key = "python" -> validate_python_service
    [] key = "cli" -> validate_python_cli
    [] key = "bayesian" -> validate_bayesian

(***************************************************************************)
(* Outcomes of the external calls                                          *)
(***************************************************************************)

\* subprocess.run: the command exits 0, exits non-zero, cannot be started
\* (OSError), or the harness is interrupted while waiting for it.
RunOutcomes == {"ok", "nonzero", "oserror", "interrupt"}

\* subprocess.run(..., timeout=5) of the health request.
CurlOutcomes == RunOutcomes \cup {"timeout"}

\* subprocess.Popen: the child is started, or starting it raises OSError.
PopenOutcomes == {"spawned", "oserror"}

\* time.sleep: it elapses, or the harness is interrupted during it.
SleepOutcomes == {"ok", "interrupt"}

NoExc == "none"

\* The exception subprocess.run raises by itself for an outcome.
subprocess_run(oc) ==
  CASE oc = "oserror" -> "OSError"
    [] oc = "interrupt" -> "KeyboardInterrupt"
    [] oc = "timeout" -> "TimeoutExpired"
    [] OTHER -> NoExc

\* Mutant: run_with_output without check=True.
run_with_output_nocheck(oc) == subprocess_run(oc)

\* run_with_output: subprocess.run(cmd, cwd=cwd, check=True).
run_with_output(oc) ==
  IF oc = "nonzero" THEN "CalledProcessError" ELSE subprocess_run(oc)

\* Mutant: generate_template without check=True.
generate_template_nocheck(oc) == subprocess_run(oc)

\* generate_template: subprocess.run(args, check=True, capture_output=True).
generate_template(oc) ==
  IF oc = "nonzero" THEN "CalledProcessError" ELSE subprocess_run(oc)

\* Mutant: the go template's make test run with check=True.
make_test_go_checked(oc) ==
  IF oc = "nonzero" THEN "CalledProcessError" ELSE subprocess_run(oc)

\* validate_go's make test: subprocess.run without check; the return code
\* is only classified (success / warn).
make_test_go(oc) == subprocess_run(oc)

\* The try/except Exception around the health request: OSError and
\* TimeoutExpired are caught, KeyboardInterrupt (a BaseException) is not.
health_check(oc) ==
  IF subprocess_run(oc) = "KeyboardInterrupt" THEN "KeyboardInterrupt" ELSE NoExc

\* The message the health request ends in.
health_outcome(oc) == IF oc = "ok" THEN "success" ELSE "warning"

\* Mutant: no finally clause.
server_cleanup_missing(st) == st

\* finally: server.terminate(); server.wait().
server_cleanup(st) == "reaped"

\* shutil.rmtree(OUTPUT_DIR): removes the tree, raises when there is none.
rmtree(exists) == IF exists THEN NoExc ELSE "FileNotFoundError"

\* Mutant: shutil.rmtree without the exists() test.
clean_rmtree_unguarded(exists) == rmtree(exists)

\* clean: if OUTPUT_DIR.exists(): shutil.rmtree(OUTPUT_DIR).
clean_rmtree(exists) == IF exists THEN rmtree(exists) ELSE NoExc

\* The process exit status: 0 when the command returns, 1 when an
\* exception leaves cli().
ExitCode(exc) == IF exc = NoExc THEN 0 ELSE 1

(***************************************************************************)
(* python-cli template: bar greet                                          *)
(***************************************************************************)

\* Largest value of --count tried.
MaxCount == 6

\* NAME arguments tried.
GreetNames == {"World", "Test", "Ada"}

\* The --count option on the command line: absent, or given with an integer.
CountOptions == {<<>>} \cup {<<n>> : n \in (-1)..MaxCount}

\* @click.option("--count", "-c", default=1, ...)
greet_default_count == 1

\* click's parsing of --count: the integer given, else the default.
greet_count(opt) == IF opt = <<>> THEN greet_default_count ELSE opt[1]

\* Mutant: range(count + 1).
greet_range_off_by_one(count) == IF count + 1 > 0 THEN count + 1 ELSE 0

\* len(range(count)): the number of iterations of greet's loop.
greet_range(count) == IF count > 0 THEN count ELSE 0

\* click.echo(f"Bar: Hello, {name}!")
greet_line(name) == <<"Bar: Hello, ", name, "!">>

(***************************************************************************)
(* python-service template: server/main.py                                 *)
(***************************************************************************)

\* Values of AUTH_SECRET in the environment ("change-me" is the default).
Secrets == {"change-me", "s3cret"}

\* Values of JWT_ALG in the environment ("HS256" is the default).
Algs == {"HS256", "HS512"}

\* JWT_SECRET = os.getenv("AUTH_SECRET", "change-me"),
\* JWT_ALG = os.getenv("JWT_ALG", "HS256")
DefaultConf == [secret |-> "change-me", alg |-> "HS256"]

Confs == [secret : Secrets, alg : Algs]

\* Bearer tokens: a JWT signed with some key under some algorithm, carrying
\* a subject claim and possibly expired, or a string that is no JWT.
Tokens ==
  [kind : {"jwt"}, key : Secrets, alg : Algs, sub : {"alice", "bob"},
   expired : BOOLEAN]
    \cup {[kind |-> "garbage", key |-> "", alg |-> "", sub |-> "", expired |-> FALSE]}

\* No Authorization header.
NoCredentials == <<>>

\* The Authorization header of a request: absent, or Bearer <token>.
Credentials == {NoCredentials} \cup {<<t>> : t \in Tokens}

\* status.HTTP_401_UNAUTHORIZED
HTTP_401_UNAUTHORIZED == 401

\* The status of HTTPBearer(auto_error=True) for a request without
\* credentials, as the template's test states it.
HTTPBearer_status == 401

\* The status of a handler that returns.
HTTP_200_OK == 200

\* Mutant: jwt.decode with the signature check switched off.
jwt_decode_unverified(token, secret, alg) ==
  token.kind = "jwt" /\ token.alg = alg /\ ~token.expired

\* jwt.decode(token, JWT_SECRET, algorithms=[JWT_ALG]) returns the claims
\* (TRUE) or raises JWTError (FALSE): the token must be a JWT whose
\* algorithm is the allowed one, whose signature the secret verifies and
\* which has not expired.
jwt_decode(token, secret, alg) ==
  token.kind = "jwt" /\ token.alg = alg /\ token.key = secret /\ ~token.expired

\* require_claims: the dependency of /whoami.
require_claims(cred, conf) ==
  IF cred = NoCredentials
  THEN [status |-> HTTPBearer_status, body |-> <<"detail", "Not authenticated">>]
  ELSE IF jwt_decode(cred[1], conf.secret, conf.alg)
  THEN [status |-> HTTP_200_OK, body |-> <<"claims", cred[1].sub>>]
  ELSE [status |-> HTTP_401_UNAUTHORIZED,
        body |-> <<"detail", "Invalid or expired token">>]

\* healthz(): no dependency, a constant body.
healthz == [status |-> HTTP_200_OK, body |-> <<"status", "ok">>]

NoRequest == [path |-> "none", cred |-> NoCredentials]
NoResponse == [status |-> 0, body |-> <<>>]

(***************************************************************************)
(* python-bayesian-experiment template: store and experiments router       *)
(***************************************************************************)

\* Largest number of data points kept in one experiment, and in one request.
MaxData == 2

\* Largest number of requests sent to a server that overlaps requests.
MaxRequests == 3

\* Experiment names used in requests.
ExpNames == {"exp-a", "exp-b"}

\* type: Literal["bernoulli", "ab_test"]
ExpTypes == {"bernoulli", "ab_test"}

\* description: str = ""
Descriptions == {"", "d"}

\* DataPoint: variant and outcome (timestamp and value play no part).
DataPoints ==
  {[variant |-> "control", outcome |-> TRUE],
   [variant |-> "treatment", outcome |-> FALSE]}

\* The body of POST /experiments/{name}/data: list[DataPoint].
Payloads == UNION {[1..k -> DataPoints] : k \in 0..MaxData}

\* The variant query parameter of the posterior: absent ("") or a variant.
Variants == {"", "control", "treatment"}

\* Threads of the server's pool that run the synchronous handlers.
Threads == {"t1", "t2"}

\* Identities of Experiment objects; 0 is None.
ObjIds == 1..(Cardinality(ExpNames) + Cardinality(Threads))

\* The value read through None (never read by the code).
NoExp == [name |-> "", type |-> "", description |-> "", data |-> <<>>]

\* Experiment(name=..., type=..., description=..., data=[])
Experiment(name, type, description) ==
  [name |-> name, type |-> type, description |-> description, data |-> <<>>]

\* The keys of the dict d, a sequence of [key, obj] in insertion order.
dict_keys(d) == {d[i].key : i \in DOMAIN d}

\* d.get(k): the object stored under k, or None.
dict_get(d, k) ==
  IF k \in dict_keys(d)
  THEN d[CHOOSE i \in DOMAIN d : d[i].key = k].obj
  ELSE 0

\* d[k] = o: a present key keeps its position, a new key goes last.
dict_set(d, k, o) ==
  IF k \in dict_keys(d)
  THEN [i \in DOMAIN d |-> IF d[i].key = k THEN [key |-> k, obj |-> o] ELSE d[i]]
  ELSE Append(d, [key |-> k, obj |-> o])

\* del d[k], for a key that is present.
dict_del(d, k) ==
  LET p == CHOOSE i \in DOMAIN d : d[i].key = k
  IN  [i \in 1..(Len(d) - 1) |-> IF i < p THEN d[i] ELSE d[i + 1]]

\* Mutant: extend that puts the new elements first.
list_extend_front(xs, ys) == ys \o xs

\* list.extend: the new elements after the present ones, in their order.
list_extend(xs, ys) == xs \o ys

\* ExperimentStore.list_experiments, as the objects' values under heap h.
list_experiments(d, h) == [i \in DOMAIN d |-> h[d[i].obj]]

\* ExperimentStore.get_experiment
get_experiment(d, name) == dict_get(d, name)

\* Mutant: save_experiment that always adds an entry.
save_experiment_append(d, h, o) == Append(d, [key |-> h[o].name, obj |-> o])

\* ExperimentStore.save_experiment: self._experiments[experiment.name] = experiment
save_experiment(d, h, o) == dict_set(d, h[o].name, o)

\* Mutant: delete_experiment that removes nothing.
delete_experiment_noop(d, name) == d

\* ExperimentStore.delete_experiment: the dict after the call.
delete_experiment(d, name) ==
  IF name \in dict_keys(d) THEN dict_del(d, name) ELSE d

\* ExperimentStore.delete_experiment: its return value.
delete_experiment_result(d, name) == name \in dict_keys(d)

\* Mutant: create_experiment without the test for an existing name.
create_rejects_never(found) == FALSE

\* create_experiment: if store.get_experiment(request.name): raise 400.
create_rejects(found) == found # 0

\* Mutant: handlers without the test for a missing experiment.
not_found_never(found) == FALSE

\* get / delete / add_data / get_posterior: if not experiment: raise 404.
not_found(found) == found = 0

\* Mutant: get_posterior that looks at the type before the variant filter.
posterior_result_type_first(e, variant) ==
  LET data == IF variant # ""
              THEN SelectSeq(e.data, LAMBDA p : p.variant = variant)
              ELSE e.data
  IN  IF e.data = <<>> THEN <<400, "No data available for this experiment">>
      ELSE IF e.type # "bernoulli"
      THEN <<400, "Posterior not implemented for type">>
      ELSE IF data = <<>> THEN <<400, "No data for variant">>
      ELSE <<200, "posterior summary">>

\* get_posterior after the 404 test: status and detail for an experiment.
posterior_result(e, variant) ==
  LET data == IF variant # ""
              THEN SelectSeq(e.data, LAMBDA p : p.variant = variant)
              ELSE e.data
  IN  IF e.data = <<>> THEN <<400, "No data available for this experiment">>
      ELSE IF data = <<>> THEN <<400, "No data for variant">>
      ELSE IF e.type = "bernoulli" THEN <<200, "posterior summary">>
      ELSE <<400, "Posterior not implemented for type">>

\* No store method has been called directly.
NoCall == [op |-> "none", name |-> "", ret |-> <<>>]

\* A pool thread that handles no request.
IdleThread ==
  [pc |-> "idle", op |-> "none", name |-> "", type |-> "", description |-> "",
   data |-> <<>>, variant |-> "", obj |-> 0, before |-> <<>>,
   status |-> 0, detail |-> "", body |-> <<>>]

\* The requests a client sends: operation and parameters.
ApiRequests ==
  [op : {"create"}, name : ExpNames, type : ExpTypes, description : Descriptions,
   data : {<<>>}, variant : {""}]
    \cup [op : {"get", "delete"}, name : ExpNames, type : {""}, description : {""},
          data : {<<>>}, variant : {""}]
    \cup [op : {"add_data"}, name : ExpNames, type : {""}, description : {""},
          data : Payloads, variant : {""}]
    \cup [op : {"posterior"}, name : ExpNames, type : {""}, description : {""},
          data : {<<>>}, variant : Variants]
    \cup [op : {"list"}, name : {""}, type : {""}, description : {""},
          data : {<<>>}, variant : {""}]

(***************************************************************************)
(* State                                                                   *)
(***************************************************************************)
VARIABLES
  inv,        \* invocations started so far
  cmd,        \* the command of the current (or last) invocation
  only,       \* its --only option
  templates,  \* validate/generate: the list of requested keys
  pc,         \* "idle", "generate", "render", "steps", "sleep", "healthz", "done"
  gi,         \* index in templates of the next key to render
  paths,      \* keys rendered by this invocation (validate's paths dict)
  vi,         \* index in templates of the template being validated
  si,         \* index of the next step of its validator
  server,     \* per key: the background process of the probe
  executed,   \* external commands attempted, in order, each with the
              \* outcome the environment gave it: <<key, command, outcome>>
  report,     \* console report: <<key, step, "success" | "warning">>
  raised,     \* the exception that left the command, with its place
  banner,     \* "All validations passed!" printed
  exit,       \* -1 while not exited, else the process exit status
  outputDir,  \* OUTPUT_DIR exists on disk
  prev,       \* command, exit status and outputDir of the invocation before
  \* python-cli template, bar greet:
  gArgs,      \* the parsed command line: NAME and the --count option
  gPc,        \* "idle", "loop", "done"
  gI,         \* iterations of the loop done
  gOut,       \* lines written to stdout
  gExit,      \* -1 while not exited, else the exit status
  \* python-service template, server/main.py:
  aConf,      \* JWT_SECRET and JWT_ALG read from the environment
  aReq,       \* the last request: path and credentials
  aResp,      \* its response: status and body
  \* python-bayesian-experiment template, store and router:
  workers,    \* number of requests the server handles at the same time
  experiments,\* ExperimentStore._experiments: [key, obj] in insertion order
  heap,       \* the Experiment objects: identity -> value
  th,         \* per pool thread: the request it handles and its locals
  live,       \* names created with success and not deleted with success since
  undo,       \* per name: the listing just before its last successful
              \* create, while nothing else has changed the store since
  served,     \* requests received so far by a server that overlaps requests
  call        \* the last direct call of a store method and what it returned

\* The state of the template harness.
harnessVars == <<inv, cmd, only, templates, pc, gi, paths, vi, si, server,
                 executed, report, raised, banner, exit, outputDir, prev>>

\* The state of the generated CLI's bar greet command.
greetVars == <<gArgs, gPc, gI, gOut, gExit>>

\* The state of the generated service.
authVars == <<aConf, aReq, aResp>>

\* The state of the generated experiment server.
apiVars == <<workers, served, experiments, heap, th, live, undo, call>>

vars == <<harnessVars, greetVars, authVars, apiVars>>

NoRaise == [exc |-> NoExc, key |-> "none", step |-> "none"]

\* The harness before its first invocation.
HarnessInit ==
  /\ inv = 0
  /\ cmd = "none"
  /\ only = NoOnly
  /\ templates = <<>>
  /\ pc = "idle"
  /\ gi = 1
  /\ paths = {}
  /\ vi = 1
  /\ si = 1
  /\ server = [k \in Keys |-> "none"]
  /\ executed = <<>>
  /\ report = <<>>
  /\ raised = NoRaise
  /\ banner = FALSE
  /\ exit = -1
  /\ outputDir \in BOOLEAN
  /\ prev = [cmd |-> "none", exit |-> -1, dir |-> FALSE]

\* bar greet not yet invoked.
GreetInit ==
  /\ gArgs = [name |-> "", count |-> <<>>]
  /\ gPc = "idle"
  /\ gI = 0
  /\ gOut = <<>>
  /\ gExit = -1

\* The service started with some environment, no request made yet.
AuthInit ==
  /\ aConf \in Confs
  /\ aReq = NoRequest
  /\ aResp = NoResponse

\* The experiment server started: an empty store, every thread idle.
ServerInit ==
  /\ served = 0
  /\ call = NoCall
  /\ experiments = <<>>
  /\ heap = [o \in {0} \cup ObjIds |-> NoExp]
  /\ th = [t \in Threads |-> IdleThread]
  /\ live = {}
  /\ undo = [n \in ExpNames |-> <<>>]

\* The server handling one request at a time, as under the test client.
ApiInit ==
  /\ workers \in {1}
  /\ ServerInit

Init ==
  /\ HarnessInit
  /\ GreetInit
  /\ AuthInit
  /\ aConf = DefaultConf
  /\ ApiInit

(***************************************************************************)
(* Helpers of the commands                                                 *)
(***************************************************************************)

\* templates = [only] if only else list(TEMPLATES.keys())
Requested(o) == IF o # NoOnly THEN <<o>> ELSE TEMPLATES

\* Mutant: generate falls through into the validators after its loop.
generate_next_validating(i, n) == IF i < n THEN "generate" ELSE "steps"

\* generate: for key in templates: generate_template(key); then it returns.
generate_next(i, n) == IF i < n THEN "generate" ELSE "done"

\* Mutant: validate runs a template's validator right after rendering it.
validate_next_interleaved(i, n) == "steps"

\* validate: the "Generate all first" loop, then the "Then validate" loop.
validate_next(i, n) == IF i < n THEN "render" ELSE "steps"

\* Mutant: the banner printed whatever the number of templates.
final_banner_always(n) == TRUE

\* validate: if len(templates) > 1: section("All validations passed!")
final_banner(n) == n > 1

\* A new process is started for a command: per-invocation state is fresh,
\* the disk is what the invocation before left.
Begin(c, o) ==
  /\ pc \in {"idle", "done"}
  /\ inv < MaxInvocations
  /\ inv' = inv + 1
  /\ cmd' = c
  /\ only' = o
  /\ prev' = [cmd |-> cmd, exit |-> exit, dir |-> outputDir]
  /\ gi' = 1
  /\ paths' = {}
  /\ vi' = 1
  /\ si' = 1
  /\ server' = [k \in Keys |-> "none"]
  /\ executed' = <<>>
  /\ raised' = NoRaise
  /\ banner' = FALSE
  /\ UNCHANGED <<greetVars, authVars, apiVars>>

\* An exception leaves the command: nothing after the raising statement
\* runs, the process exits with ExitCode.
Abort(exc, key, step) ==
  /\ pc' = "done"
  /\ exit' = ExitCode(exc)
  /\ raised' = [exc |-> exc, key |-> key, step |-> step]
  /\ UNCHANGED <<vi, si, banner, report>>

\* The statements after a step that did not raise, up to the next external
\* command: the next step of the validator; at its end the "validation
\* complete" message and the next template of validate's loop; at the end of
\* the loop the banner and the return of validate.
Advance(rep) ==
  LET key == templates[vi]
      seq == VALIDATORS(key)
      rep2 == Append(rep, <<key, "validation complete", "success">>)
  IN  IF si < Len(seq)
      THEN /\ si' = si + 1
           /\ pc' = "steps"
           /\ report' = rep
           /\ UNCHANGED <<vi, exit, banner, raised>>
      ELSE IF vi < Len(templates)
      THEN /\ vi' = vi + 1
           /\ si' = 1
           /\ pc' = "steps"
           /\ report' = rep2
           /\ UNCHANGED <<exit, banner, raised>>
      ELSE /\ pc' = "done"
           /\ exit' = ExitCode(NoExc)
           /\ banner' = final_banner(Len(templates))
           /\ report' = rep2
           /\ UNCHANGED <<vi, si, raised>>

CurKey == templates[vi]
CurStep == VALIDATORS(CurKey)[si]

(***************************************************************************)
(* Commands                                                                *)
(***************************************************************************)

\* generate: mkdir, the list of keys; the loop body is GenerateLoop.
generate ==
  \E o \in Keys \cup {NoOnly} :
    /\ Begin("generate", o)
    /\ outputDir' = TRUE
    /\ templates' = Requested(o)
    /\ pc' = "generate"
    /\ exit' = -1
    /\ report' = <<>>

\* One iteration of generate's loop: generate_template(key).
GenerateLoop ==
  /\ pc = "generate"
  /\ \E oc \in RunOutcomes :
       LET key == templates[gi]
           exc == generate_template(oc)
           nxt == generate_next(gi, Len(templates))
       IN  /\ executed' = Append(executed, <<key, "cookiecutter", oc>>)
           /\ IF exc = NoExc
              THEN /\ report' = Append(report, <<key, "Generated", "success">>)
                   /\ gi' = gi + 1
                   /\ pc' = nxt
                   /\ exit' = IF nxt = "done" THEN ExitCode(NoExc) ELSE exit
                   /\ UNCHANGED <<vi, si, banner, raised>>
              ELSE /\ Abort(exc, key, "cookiecutter")
                   /\ UNCHANGED gi
  /\ UNCHANGED <<inv, cmd, only, templates, paths, server, outputDir, prev>>
  /\ UNCHANGED <<greetVars, authVars, apiVars>>

\* validate: mkdir, the list of keys; then the render loop.
validate ==
  \E o \in Keys \cup {NoOnly} :
    /\ Begin("validate", o)
    /\ outputDir' = TRUE
    /\ templates' = Requested(o)
    /\ pc' = "render"
    /\ exit' = -1
    /\ report' = <<>>

\* One iteration of validate's first loop: paths[key] = generate_template(key).
ValidateRender ==
  /\ pc = "render"
  /\ \E oc \in RunOutcomes :
       LET key == templates[gi]
           exc == generate_template(oc)
       IN  /\ executed' = Append(executed, <<key, "cookiecutter", oc>>)
           /\ IF exc = NoExc
              THEN /\ report' = Append(report, <<key, "Generated", "success">>)
                   /\ paths' = paths \cup {key}
                   /\ gi' = gi + 1
                   /\ pc' = validate_next(gi, Len(templates))
                   /\ UNCHANGED <<vi, si, banner, raised, exit>>
              ELSE /\ Abort(exc, key, "cookiecutter")
                   /\ UNCHANGED <<gi, paths>>
  /\ UNCHANGED <<inv, cmd, only, templates, server, outputDir, prev>>
  /\ UNCHANGED <<greetVars, authVars, apiVars>>

\* A required step of a validator: run_with_output(...); success(...).
RunStep ==
  /\ pc = "steps"
  /\ CurStep.kind = "check"
  /\ \E oc \in RunOutcomes :
       LET exc == run_with_output(oc)
       IN  /\ executed' = Append(executed, <<CurKey, CurStep.name, oc>>)
           /\ IF exc = NoExc
              THEN Advance(Append(report, <<CurKey, CurStep.name, "success">>))
              ELSE Abort(exc, CurKey, CurStep.name)
  /\ UNCHANGED <<inv, cmd, only, templates, gi, paths, server, outputDir, prev>>
  /\ UNCHANGED <<greetVars, authVars, apiVars>>

\* validate_go's make test: the return code decides success or warn.
TolerantStep ==
  /\ pc = "steps"
  /\ CurStep.kind = "tolerant"
  /\ \E oc \in RunOutcomes :
       LET exc == make_test_go(oc)
           out == IF oc = "ok" THEN "success" ELSE "warning"
       IN  /\ executed' = Append(executed, <<CurKey, CurStep.name, oc>>)
           /\ IF exc = NoExc
              THEN Advance(Append(report, <<CurKey, CurStep.name, out>>))
              ELSE Abort(exc, CurKey, CurStep.name)
  /\ UNCHANGED <<inv, cmd, only, templates, gi, paths, server, outputDir, prev>>
  /\ UNCHANGED <<greetVars, authVars, apiVars>>

\* The probe's server = subprocess.Popen(...), before the try block.
ProbeLaunch ==
  /\ pc = "steps"
  /\ CurStep.kind = "probe"
  /\ \E oc \in PopenOutcomes :
       /\ executed' = Append(executed, <<CurKey, "server", oc>>)
       /\ IF oc = "spawned"
          THEN /\ server' = [server EXCEPT ![CurKey] = "running"]
               /\ pc' = "sleep"
               /\ UNCHANGED <<vi, si, banner, report, raised, exit>>
          ELSE /\ Abort(subprocess_run(oc), CurKey, "server")
               /\ UNCHANGED server
  /\ UNCHANGED <<inv, cmd, only, templates, gi, paths, outputDir, prev>>
  /\ UNCHANGED <<greetVars, authVars, apiVars>>

\* The probe's time.sleep(...), before the try block.
ProbeSleep ==
  /\ pc = "sleep"
  /\ \E oc \in SleepOutcomes :
       IF oc = "ok"
       THEN /\ pc' = "healthz"
            /\ UNCHANGED <<vi, si, banner, report, raised, exit>>
       ELSE Abort(subprocess_run(oc), CurKey, "sleep")
  /\ UNCHANGED <<inv, cmd, only, templates, gi, paths, server, executed,
                 outputDir, prev>>
  /\ UNCHANGED <<greetVars, authVars, apiVars>>

\* The spawned server exits by itself while the harness sleeps or probes.
ServerExits ==
  /\ pc \in {"sleep", "healthz"}
  /\ server[CurKey] = "running"
  /\ server' = [server EXCEPT ![CurKey] = "exited"]
  /\ UNCHANGED <<inv, cmd, only, templates, pc, gi, paths, vi, si, executed,
                 report, raised, banner, exit, outputDir, prev>>
  /\ UNCHANGED <<greetVars, authVars, apiVars>>

\* The probe's try / except Exception / finally, and what follows it.
ProbeHealth ==
  /\ pc = "healthz"
  /\ \E oc \in CurlOutcomes :
       LET exc == health_check(oc)
       IN  /\ executed' = Append(executed, <<CurKey, "curl", oc>>)
           /\ server' = [server EXCEPT ![CurKey] = server_cleanup(@)]
           /\ IF exc = NoExc
              THEN Advance(Append(report, <<CurKey, "healthz", health_outcome(oc)>>))
              ELSE Abort(exc, CurKey, "curl")
  /\ UNCHANGED <<inv, cmd, only, templates, gi, paths, outputDir, prev>>
  /\ UNCHANGED <<greetVars, authVars, apiVars>>

\* clean: log; if OUTPUT_DIR.exists(): rmtree; success.
clean ==
  LET exc == clean_rmtree(outputDir)
  IN  /\ Begin("clean", NoOnly)
      /\ templates' = <<>>
      /\ pc' = "done"
      /\ exit' = ExitCode(exc)
      /\ outputDir' = IF exc = NoExc THEN FALSE ELSE outputDir
      /\ report' = IF exc = NoExc THEN <<<<"none", "Cleaned", "success">>>> ELSE <<>>

\* show: prints the static hints.
show ==
  /\ Begin("show", NoOnly)
  /\ templates' = <<>>
  /\ pc' = "done"
  /\ exit' = ExitCode(NoExc)
  /\ report' = <<>>
  /\ UNCHANGED outputDir

Next ==
  \/ generate
  \/ GenerateLoop
  \/ validate
  \/ ValidateRender
  \/ RunStep
  \/ TolerantStep
  \/ ProbeLaunch
  \/ ProbeSleep
  \/ ServerExits
  \/ ProbeHealth
  \/ clean
  \/ show

Spec == Init /\ [][Next]_vars

(***************************************************************************)
(* Properties                                                              *)
(***************************************************************************)

\* The steps of kind `kind` of the validator of `key`.
StepNames(key, kind) ==
  {VALIDATORS(key)[j].name : j \in {j \in DOMAIN VALIDATORS(key) :
                                       VALIDATORS(key)[j].kind = kind}}

\* e is the log entry of a required step that exited non-zero.
RequiredFailed(e) == e[3] = "nonzero" /\ e[2] \in StepNames(e[1], "check")

\* The requested keys as a set.
Selected == {templates[j] : j \in DOMAIN templates}

\* The log entries as a set.
Executed == {executed[i] : i \in DOMAIN executed}

\* C1: in validate, when a required step exits non-zero, it is the last
\* command of the invocation (no later step of the template and no step of a
\* later template runs), the template's validation does not complete, and
\* the process has ended with a non-zero exit status.
C1_RequiredFailureIsFatal ==
  cmd = "validate" =>
    \A i \in DOMAIN executed :
      RequiredFailed(executed[i]) =>
        /\ i = Len(executed)
        /\ pc = "done"
        /\ exit = 1
        /\ raised.exc # NoExc
        /\ ~banner
        /\ \A r \in DOMAIN report :
             report[r] # <<executed[i][1], "validation complete", "success">>

\* C1 witness: validate of all templates whose go build step failed.
C1_Witness ==
  /\ cmd = "validate"
  /\ only = NoOnly
  /\ pc = "done"
  /\ Len(executed) > 0
  /\ executed[Len(executed)] = <<"go", "make build", "nonzero">>

\* C2: once the health request of a template's probe has been made, whatever
\* its outcome (success, non-zero, timeout, an exception, an interrupt), the
\* background process of that probe has been terminated and waited on.
C2_ProbeReapsServer ==
  \A e \in Executed : e[2] = "curl" => server[e[1]] = "reaped"

\* C2 witness: the bayesian probe's health request timed out and the probe
\* returned.
C2_Witness ==
  /\ <<"bayesian", "curl", "timeout">> \in Executed
  /\ <<"bayesian", "validation complete", "success">> = report[Len(report)]
  /\ server["bayesian"] = "reaped"

\* C4: in validate, whenever a validation step has been run, the log starts
\* with one successful render per requested template, in request order: all
\* rendering is done before the first validation step.
C4_RenderAllBeforeValidation ==
  cmd = "validate" =>
    \A i \in DOMAIN executed :
      executed[i][2] # "cookiecutter" =>
        /\ i > Len(templates)
        /\ \A j \in DOMAIN templates :
             executed[j] = <<templates[j], "cookiecutter", "ok">>
        /\ Selected \subseteq paths

\* C4 witness: validate of all four templates has run its first step.
C4_Witness ==
  /\ cmd = "validate"
  /\ Len(templates) = 4
  /\ Len(executed) = 5
  /\ executed[5] = <<"go", "make help", "ok">>

\* C5: when validate has ended, exit status 0 implies every required step of
\* every selected template ran and succeeded, and a required step that
\* exited non-zero implies a non-zero exit status.
C5_ExitZeroOnlyIfAllRequiredPass ==
  (cmd = "validate" /\ pc = "done") =>
    /\ exit = 0 =>
         \A k \in Selected : \A n \in StepNames(k, "check") :
           <<k, n, "ok">> \in Executed
    /\ (\E e \in Executed : RequiredFailed(e)) => exit # 0

\* C5 witness: validate of all templates ended with exit status 0 although
\* the go tests and a health request failed.
C5_Witness ==
  /\ cmd = "validate"
  /\ only = NoOnly
  /\ pc = "done"
  /\ exit = 0
  /\ <<"go", "make test", "nonzero">> \in Executed
  /\ <<"python", "curl", "nonzero">> \in Executed

\* e is the log entry of a probe outcome that is a probe failure: the
\* background process could not be launched, or the health request exited
\* non-zero, timed out or raised.
ProbeFailed(e) ==
  \/ e[2] = "server" /\ e[3] = "oserror"
  \/ e[2] = "curl" /\ e[3] \in {"nonzero", "timeout", "oserror"}

\* C3 (as claimed): no probe failure aborts validate: after one, no exception
\* has left the command and the exit status is not non-zero.
C3_ProbeFailureNeverFatal ==
  \A i \in DOMAIN executed :
    (ProbeFailed(executed[i]) /\ i = Len(executed)) =>
      /\ raised.exc = NoExc
      /\ exit # 1

\* e is the log entry of a tolerated step that failed: the go template's
\* make test exiting non-zero, or a health request that exited non-zero,
\* timed out or raised.
ToleratedFailed(e) ==
  \/ e[2] \in StepNames(e[1], "tolerant") /\ e[3] = "nonzero"
  \/ e[2] = "curl" /\ e[3] \in {"nonzero", "timeout", "oserror"}

\* C6: a tolerated step that fails is reported as a warning, raises nothing
\* and leaves the exit status alone, and what is declared after it comes
\* next: after a failing make test the go probe is launched, after a failing
\* health request the template's validation completes and validate goes on
\* to the next template or returns with exit status 0.
C6_ToleratedFailureWarnsAndContinues ==
  \A i \in DOMAIN executed :
    LET e == executed[i] IN
    ToleratedFailed(e) =>
      /\ \E r \in DOMAIN report :
           report[r] = <<e[1], IF e[2] = "curl" THEN "healthz" ELSE e[2], "warning">>
      /\ ~(raised.key = e[1] /\ raised.step = e[2])
      /\ i = Len(executed) =>
           /\ raised = NoRaise
           /\ exit \in {-1, 0}
           /\ IF e[2] = "curl"
              THEN /\ report[Len(report)] = <<e[1], "validation complete", "success">>
                   /\ \/ pc = "done" /\ exit = 0
                      \/ pc = "steps" /\ si = 1 /\ vi > 1 /\ templates[vi - 1] = e[1]
              ELSE /\ pc = "steps"
                   /\ CurKey = e[1]
                   /\ CurStep.kind = "probe"
      /\ (e[2] # "curl" /\ i < Len(executed)) =>
           (executed[i + 1][1] = e[1] /\ executed[i + 1][2] = "server")

\* C6 witness: the go tests failed, the go probe ran and the go validation
\* completed; validate of all templates then ended with exit status 0.
C6_Witness ==
  /\ cmd = "validate"
  /\ only = NoOnly
  /\ pc = "done"
  /\ exit = 0
  /\ executed[9] = <<"go", "make test", "nonzero">>
  /\ executed[10] = <<"go", "server", "spawned">>
  /\ executed[11] = <<"go", "curl", "ok">>
  /\ report[9] = <<"go", "make test", "warning">>
  /\ report[11] = <<"go", "validation complete", "success">>

\* C7: in validate, a render that fails (cookiecutter exits non-zero or
\* cannot be started) is the last command of the invocation: no later
\* template is rendered, no validation step of any template has run, and the
\* process has ended with a non-zero exit status.
C7_RenderFailureAborts ==
  cmd = "validate" =>
    \A i \in DOMAIN executed :
      (executed[i][2] = "cookiecutter" /\ executed[i][3] \in {"nonzero", "oserror"}) =>
        /\ i = Len(executed)
        /\ pc = "done"
        /\ exit = 1
        /\ \A e \in Executed : e[2] = "cookiecutter"
        /\ executed[i][1] \notin paths
        /\ \A k \in Keys : server[k] = "none"

\* C7 witness: validate of all templates rendered go, then failed to render
\* python.
C7_Witness ==
  /\ cmd = "validate"
  /\ pc = "done"
  /\ executed = << <<"go", "cookiecutter", "ok">>, <<"python", "cookiecutter", "nonzero">> >>

\* C8: generate runs nothing but the renderer, once per requested key in
\* request order, and spawns no process; when it has ended, the exit status
\* is 0 exactly when every requested render succeeded, and non-zero when a
\* render failed.
C8_GenerateOnlyRenders ==
  cmd = "generate" =>
    /\ pc \in {"generate", "done"}
    /\ \A i \in DOMAIN executed :
         /\ i <= Len(templates)
         /\ executed[i][1] = templates[i]
         /\ executed[i][2] = "cookiecutter"
    /\ \A k \in Keys : server[k] = "none"
    /\ pc = "done" =>
         /\ exit = 0 <=> /\ Len(executed) = Len(templates)
                         /\ \A e \in Executed : e[3] = "ok"
         /\ (\E e \in Executed : e[3] # "ok") => exit = 1

\* C8 witness: generate of all four templates ended with exit status 0.
C8_Witness ==
  /\ cmd = "generate"
  /\ pc = "done"
  /\ exit = 0
  /\ Len(executed) = 4

\* C9: clean ends with exit status 0 and without the output root, whether or
\* not the output root existed before; a clean that follows a clean ends
\* with the same exit status and the same disk state as the first.
C9_CleanIdempotent ==
  cmd = "clean" =>
    /\ pc = "done"
    /\ exit = 0
    /\ ~outputDir
    /\ prev.cmd = "clean" => (exit = prev.exit /\ outputDir = prev.dir)

\* C9 witness: clean has run twice in a row.
C9_Witness ==
  /\ cmd = "clean"
  /\ prev.cmd = "clean"
  /\ inv = 2

\* C10: in validate --only cli, when the packaged CLI's test suite (make
\* test) exits non-zero, the report holds a success for each of the nine
\* steps declared before it, in order, the failure is the CalledProcessError
\* of make test that leaves the command, nothing is reported for make lint,
\* and the exit status is non-zero.
C10_CliTestFailureReport ==
  (cmd = "validate" /\ only = "cli" /\ <<"cli", "make test", "nonzero">> \in Executed) =>
    /\ Len(report) = 10
    /\ report[1] = <<"cli", "Generated", "success">>
    /\ \A j \in 1..9 :
         report[j + 1] = <<"cli", validate_python_cli[j].name, "success">>
    /\ {validate_python_cli[j].name : j \in 1..9} =
         {"make help", "simple.py --help", "simple.py hello", "simple.py add",
          "uv sync --all-extras", "test-cli --help", "test-cli hello",
          "test-cli foo do-something", "test-cli bar greet"}
    /\ raised = [exc |-> "CalledProcessError", key |-> "cli", step |-> "make test"]
    /\ \A r \in DOMAIN report : report[r][2] # "make lint"
    /\ \A e \in Executed : e[2] # "make lint"
    /\ pc = "done"
    /\ exit = 1

\* C10 witness: validate --only cli ended at a failing make test.
C10_Witness ==
  /\ cmd = "validate"
  /\ only = "cli"
  /\ Len(executed) = 11
  /\ executed[11] = <<"cli", "make test", "nonzero">>

\* C11: the "All validations passed!" banner is printed only by a validate
\* of more than one template that returned normally, every required step of
\* every selected template having succeeded; never by a run with --only and
\* never after an exception left the command.
C11_BannerOnlyAfterFullSuccess ==
  banner =>
    /\ cmd = "validate"
    /\ only = NoOnly
    /\ Len(templates) > 1
    /\ pc = "done"
    /\ exit = 0
    /\ raised = NoRaise
    /\ \A k \in Selected : \A n \in StepNames(k, "check") :
         <<k, n, "ok">> \in Executed
    /\ \A k \in Selected :
         \E r \in DOMAIN report : report[r] = <<k, "validation complete", "success">>

\* C11 witness: the banner has been printed.
C11_Witness ==
  /\ banner
  /\ Len(templates) = 4

\* The external commands of a template: its render, the commands of its
\* steps, and for a probe the server launch and the health request.
Commands(key) ==
  {"cookiecutter"} \cup StepNames(key, "check") \cup StepNames(key, "tolerant")
    \cup (IF StepNames(key, "probe") # {} THEN {"server", "curl"} ELSE {})

\* The positions of the log at which command c of template key was attempted.
Attempts(key, c) ==
  {i \in DOMAIN executed : executed[i][1] = key /\ executed[i][2] = c}

\* C12: within one invocation no external command is attempted twice, and a
\* validate that returned normally attempted each command of each selected
\* template exactly once.
C12_EveryCommandOnce ==
  /\ \A k \in Keys : \A c \in Commands(k) : Cardinality(Attempts(k, c)) <= 1
  /\ \A e \in Executed : e[2] \in Commands(e[1])
  /\ (cmd = "validate" /\ pc = "done" /\ exit = 0) =>
       \A k \in Selected : \A c \in Commands(k) : Cardinality(Attempts(k, c)) = 1

\* C12 witness: validate of all templates returned normally although the go
\* tests and the bayesian health request failed.
C12_Witness ==
  /\ cmd = "validate"
  /\ only = NoOnly
  /\ pc = "done"
  /\ exit = 0
  /\ <<"go", "make test", "nonzero">> \in Executed
  /\ <<"bayesian", "curl", "timeout">> \in Executed

\* C13 (as claimed): when the harness has stopped, no background server
\* process it spawned is still running.
C13_NoServerOutlivesHarness ==
  pc = "done" => \A k \in Keys : server[k] # "running"

\* e is a log entry of a validation step (not of a render).
IsValidation(e) == e[2] # "cookiecutter"

\* e is a log entry of the CLI template's validator.
IsCliStep(e) == e[1] = "cli" /\ e[2] # "cookiecutter"

\* The position of a key in the requested list.
KeyIndex(key) == CHOOSE j \in DOMAIN templates : templates[j] = key

\* The last command of a template's validator.
LastCommand(key) == IF StepNames(key, "probe") # {} THEN "curl" ELSE "make lint"

\* The declared order of the CLI template's steps.
CliOrder ==
  <<"make help", "simple.py --help", "simple.py hello", "simple.py add",
    "uv sync --all-extras", "test-cli --help", "test-cli hello",
    "test-cli foo do-something", "test-cli bar greet", "make test", "make lint">>

\* C19: in validate the validation steps run one after the other: the
\* templates in request order, a template starting only after the one
\* before has run its last command, every command but the last of the log
\* having returned without raising; the CLI template's commands are a
\* prefix of its declared order and include no server launch or health
\* request, and a go, python or bayesian validation that completed ended
\* with the server launch and the health request.
C19_SequentialDeclaredOrder ==
  cmd = "validate" =>
    LET log == SelectSeq(executed, IsValidation)
        clilog == SelectSeq(executed, IsCliStep)
    IN  /\ \A i \in 1..(Len(log) - 1) :
             /\ KeyIndex(log[i][1]) <= KeyIndex(log[i + 1][1])
             /\ KeyIndex(log[i][1]) < KeyIndex(log[i + 1][1]) =>
                  /\ log[i][2] = LastCommand(log[i][1])
                  /\ KeyIndex(log[i + 1][1]) = KeyIndex(log[i][1]) + 1
             /\ run_with_output(log[i][3]) = NoExc \/ log[i][3] = "spawned"
                  \/ ToleratedFailed(log[i])
        /\ Len(clilog) <= Len(CliOrder)
        /\ \A i \in DOMAIN clilog : clilog[i][2] = CliOrder[i]
        /\ \A k \in Selected \ {"cli"} :
             (\E r \in DOMAIN report : report[r] = <<k, "validation complete", "success">>) =>
               \E i \in DOMAIN log :
                 /\ i > 1
                 /\ log[i - 1][1] = k /\ log[i - 1][2] = "server"
                 /\ log[i][1] = k /\ log[i][2] = "curl"
                 /\ \A j \in DOMAIN log : (j > i) => log[j][1] # k

\* C19 witness: validate of all templates has run the whole CLI sequence
\* and started the bayesian one.
C19_Witness ==
  /\ cmd = "validate"
  /\ only = NoOnly
  /\ <<"cli", "make lint", "ok">> \in Executed
  /\ <<"bayesian", "make help", "ok">> \in Executed

\* The templates whose background server process has not been waited on.
Unreaped == {k \in Keys : server[k] \in {"running", "exited"}}

\* C20: during validate at most one background server process spawned by
\* the harness is alive, it is the one of the template being validated, and
\* none is alive when a validator's foreground steps run (so when the next
\* template's validation starts) or when validate has returned normally.
C20_AtMostOneServer ==
  cmd = "validate" =>
    /\ Cardinality(Unreaped) <= 1
    /\ Unreaped # {} => Unreaped = {CurKey}
    /\ pc = "steps" => Unreaped = {}
    /\ (pc = "done" /\ exit = 0) => Unreaped = {}

\* C20 witness: the go probe's server has been reaped and the python
\* probe's server is running.
C20_Witness ==
  /\ cmd = "validate"
  /\ server["go"] = "reaped"
  /\ server["python"] = "running"

(***************************************************************************)
(* python-cli template: the bar greet command                              *)
(***************************************************************************)

\* bar greet NAME [--count N] is started: click parses the command line.
GreetInvoke ==
  /\ gPc \in {"idle", "done"}
  /\ \E n \in GreetNames, c \in CountOptions :
       gArgs' = [name |-> n, count |-> c]
  /\ gPc' = "loop"
  /\ gI' = 0
  /\ gOut' = <<>>
  /\ gExit' = -1
  /\ UNCHANGED <<harnessVars, authVars, apiVars>>

\* One iteration of for _ in range(count): click.echo(...).
GreetLoop ==
  /\ gPc = "loop"
  /\ gI < greet_range(greet_count(gArgs.count))
  /\ gOut' = Append(gOut, greet_line(gArgs.name))
  /\ gI' = gI + 1
  /\ UNCHANGED <<gArgs, gPc, gExit, harnessVars, authVars, apiVars>>

\* The loop is exhausted: greet returns and the process exits 0.
GreetReturn ==
  /\ gPc = "loop"
  /\ gI >= greet_range(greet_count(gArgs.count))
  /\ gPc' = "done"
  /\ gExit' = 0
  /\ UNCHANGED <<gArgs, gI, gOut, harnessVars, authVars, apiVars>>

NextGreet ==
  \/ GreetInvoke
  \/ GreetLoop
  \/ GreetReturn

SpecGreet == Init /\ [][NextGreet]_vars

\* C18: bar greet NAME --count N with N >= 0 (N = 1 when --count is
\* omitted) ends with exit status 0 having printed exactly N lines, each the
\* greeting line of NAME; while it runs, it has printed nothing else.
C18_GreetPrintsCountLines ==
  LET n == IF gArgs.count = <<>> THEN 1 ELSE gArgs.count[1]
  IN  (gPc # "idle" /\ n >= 0) =>
        /\ \A i \in DOMAIN gOut : gOut[i] = <<"Bar: Hello, ", gArgs.name, "!">>
        /\ Len(gOut) <= n
        /\ gPc = "done" => (gExit = 0 /\ Len(gOut) = n)

\* C18 witness: bar greet World --count 2 has ended with two lines printed.
C18_Witness ==
  /\ gPc = "done"
  /\ gArgs = [name |-> "World", count |-> <<2>>]
  /\ gOut = << <<"Bar: Hello, ", "World", "!">>, <<"Bar: Hello, ", "World", "!">> >>

(***************************************************************************)
(* python-service template: the endpoints                                  *)
(***************************************************************************)

\* GET /healthz, with or without credentials.
RequestHealthz ==
  /\ \E c \in Credentials : aReq' = [path |-> "/healthz", cred |-> c]
  /\ aResp' = healthz
  /\ UNCHANGED <<aConf, harnessVars, greetVars, apiVars>>

\* GET /whoami: whoami(claims = Depends(require_claims)).
RequestWhoami ==
  /\ \E c \in Credentials :
       /\ aReq' = [path |-> "/whoami", cred |-> c]
       /\ aResp' = require_claims(c, aConf)
  /\ UNCHANGED <<aConf, harnessVars, greetVars, apiVars>>

NextAuth ==
  \/ RequestHealthz
  \/ RequestWhoami

\* The service started with any environment.
InitAuth ==
  /\ HarnessInit
  /\ GreetInit
  /\ AuthInit
  /\ ApiInit

SpecAuth == InitAuth /\ [][NextAuth]_vars

\* C17: /whoami answers with claims only to a request whose bearer token is
\* a JWT signed with the configured secret under the configured algorithm
\* (and not expired), and then with that token's claims; a request without
\* credentials or with a token that does not verify gets 401 and no claims;
\* /healthz answers 200 {"status": "ok"} whatever the credentials.
C17_WhoamiOnlyForVerifiedToken ==
  LET verifies ==
        IF aReq.cred = NoCredentials THEN FALSE
        ELSE /\ aReq.cred[1].kind = "jwt"
             /\ aReq.cred[1].key = aConf.secret
             /\ aReq.cred[1].alg = aConf.alg
             /\ ~aReq.cred[1].expired
  IN  /\ aReq.path = "/whoami" =>
           /\ aResp.body[1] = "claims" =>
                /\ verifies
                /\ aResp.status = 200
                /\ aResp.body = <<"claims", aReq.cred[1].sub>>
           /\ ~verifies => (aResp.status = 401 /\ aResp.body[1] # "claims")
      /\ aReq.path = "/healthz" =>
           aResp = [status |-> 200, body |-> <<"status", "ok">>]

\* C17 witness: /whoami was asked with a well-formed, unexpired token of the
\* configured algorithm signed with another secret, and answered 401.
C17_Witness ==
  /\ aReq.path = "/whoami"
  /\ aReq.cred # NoCredentials
  /\ aReq.cred[1].kind = "jwt"
  /\ aReq.cred[1].alg = aConf.alg
  /\ ~aReq.cred[1].expired
  /\ aReq.cred[1].key # aConf.secret
  /\ aResp.status = 401


(***************************************************************************)
(* python-bayesian-experiment template: the request handlers               *)
(***************************************************************************)

\* The objects the dict d or a thread's local still refers to.
Referenced(d, threads) ==
  ({d[i].obj : i \in DOMAIN d} \cup {threads[t].obj : t \in Threads}) \ {0}

\* The heap without the objects nothing refers to any more.
Collect(h, d, threads) ==
  [o \in DOMAIN h |-> IF o \in Referenced(d, threads) THEN h[o] ELSE NoExp]

\* The identity a newly constructed Experiment gets.
FreeId == CHOOSE o \in ObjIds : o \notin Referenced(experiments, th)

\* The handler of thread t returns or raises: the response is complete.
Respond(t, status, detail, body) ==
  [th[t] EXCEPT !.pc = "responded", !.obj = 0,
                !.status = status, !.detail = detail, !.body = body]

\* The number of requests being handled.
InFlight == Cardinality({t \in Threads : th[t].pc # "idle"})

\* A request arrives and an idle thread takes it.
ApiReceive(t) ==
  /\ th[t].pc = "idle"
  /\ InFlight < workers
  /\ workers > 1 => served < MaxRequests
  /\ served' = IF workers > 1 THEN served + 1 ELSE served
  /\ \E r \in ApiRequests :
       /\ r.op = "add_data" =>
            Len(heap[get_experiment(experiments, r.name)].data) + Len(r.data)
              <= MaxData
       /\ th' = [th EXCEPT ![t] =
                   [IdleThread EXCEPT !.pc = "start", !.op = r.op,
                      !.name = r.name, !.type = r.type,
                      !.description = r.description, !.data = r.data,
                      !.variant = r.variant,
                      !.before = list_experiments(experiments, heap)]]
  /\ UNCHANGED <<workers, experiments, heap, live, undo, call>>
  /\ UNCHANGED <<harnessVars, greetVars, authVars>>

\* list_experiments: return store.list_experiments()
ApiList(t) ==
  /\ th[t].pc = "start" /\ th[t].op = "list"
  /\ th' = [th EXCEPT ![t] =
              Respond(t, 200, "", list_experiments(experiments, heap))]
  /\ UNCHANGED <<workers, served, experiments, heap, live, undo, call>>
  /\ UNCHANGED <<harnessVars, greetVars, authVars>>

\* create_experiment, the test: 400 when the name is in the store.
ApiCreateCheck(t) ==
  /\ th[t].pc = "start" /\ th[t].op = "create"
  /\ th' = [th EXCEPT ![t] =
              IF create_rejects(get_experiment(experiments, th[t].name))
              THEN Respond(t, 400, "already exists", <<>>)
              ELSE [th[t] EXCEPT !.pc = "save"]]
  /\ UNCHANGED <<workers, served, experiments, heap, live, undo, call>>
  /\ UNCHANGED <<harnessVars, greetVars, authVars>>

\* create_experiment, the rest: construct, save, return the experiment.
ApiCreateSave(t) ==
  /\ th[t].pc = "save" /\ th[t].op = "create"
  /\ LET o == FreeId
         e == Experiment(th[t].name, th[t].type, th[t].description)
         h == [heap EXCEPT ![o] = e]
     IN  /\ experiments' = save_experiment(experiments, h, o)
         /\ th' = [th EXCEPT ![t] = Respond(t, 200, "", <<e>>)]
         /\ heap' = Collect(h, experiments', th')
         /\ live' = live \cup {e.name}
         /\ undo' = [n \in ExpNames |->
                       IF n = e.name
                       THEN <<list_experiments(experiments, heap)>>
                       ELSE <<>>]
  /\ UNCHANGED <<workers, served, call>>
  /\ UNCHANGED <<harnessVars, greetVars, authVars>>

\* get_experiment: 404 when absent, else the experiment.
ApiGet(t) ==
  /\ th[t].pc = "start" /\ th[t].op = "get"
  /\ LET found == get_experiment(experiments, th[t].name)
     IN  th' = [th EXCEPT ![t] =
                  IF not_found(found)
                  THEN Respond(t, 404, "not found", <<>>)
                  ELSE Respond(t, 200, "", <<heap[found]>>)]
  /\ UNCHANGED <<workers, served, experiments, heap, live, undo, call>>
  /\ UNCHANGED <<harnessVars, greetVars, authVars>>

\* delete_experiment, the test: 404 when absent.
ApiDeleteCheck(t) ==
  /\ th[t].pc = "start" /\ th[t].op = "delete"
  /\ th' = [th EXCEPT ![t] =
              IF not_found(get_experiment(experiments, th[t].name))
              THEN Respond(t, 404, "not found", <<>>)
              ELSE [th[t] EXCEPT !.pc = "delete"]]
  /\ UNCHANGED <<workers, served, experiments, heap, live, undo, call>>
  /\ UNCHANGED <<harnessVars, greetVars, authVars>>

\* delete_experiment, the rest: store.delete_experiment(name), status deleted.
ApiDeleteDo(t) ==
  /\ th[t].pc = "delete" /\ th[t].op = "delete"
  /\ experiments' = delete_experiment(experiments, th[t].name)
  /\ th' = [th EXCEPT ![t] = Respond(t, 200, "deleted", <<>>)]
  /\ heap' = Collect(heap, experiments', th')
  /\ live' = live \ {th[t].name}
  /\ undo' = [n \in ExpNames |-> IF n = th[t].name THEN undo[n] ELSE <<>>]
  /\ UNCHANGED <<workers, served, call>>
  /\ UNCHANGED <<harnessVars, greetVars, authVars>>

\* add_data, the test: 404 when absent, else keep the stored object.
ApiAddCheck(t) ==
  /\ th[t].pc = "start" /\ th[t].op = "add_data"
  /\ LET found == get_experiment(experiments, th[t].name)
     IN  th' = [th EXCEPT ![t] =
                  IF not_found(found)
                  THEN Respond(t, 404, "not found", <<>>)
                  ELSE [th[t] EXCEPT !.pc = "extend", !.obj = found]]
  /\ UNCHANGED <<workers, served, experiments, heap, live, undo, call>>
  /\ UNCHANGED <<harnessVars, greetVars, authVars>>

\* add_data: experiment.data.extend(data), on the object itself.
ApiAddExtend(t) ==
  /\ th[t].pc = "extend" /\ th[t].op = "add_data"
  /\ heap' = [heap EXCEPT ![th[t].obj].data = list_extend(@, th[t].data)]
  /\ th' = [th EXCEPT ![t].pc = "save"]
  /\ undo' = [n \in ExpNames |->
                IF n = th[t].name \/ th[t].data = <<>> THEN undo[n] ELSE <<>>]
  /\ UNCHANGED <<workers, served, experiments, live, call>>
  /\ UNCHANGED <<harnessVars, greetVars, authVars>>

\* add_data: store.save_experiment(experiment); return experiment.
ApiAddSave(t) ==
  /\ th[t].pc = "save" /\ th[t].op = "add_data"
  /\ experiments' = save_experiment(experiments, heap, th[t].obj)
  /\ th' = [th EXCEPT ![t] = Respond(t, 200, "", <<heap[th[t].obj]>>)]
  /\ heap' = Collect(heap, experiments', th')
  /\ UNCHANGED <<workers, served, live, undo, call>>
  /\ UNCHANGED <<harnessVars, greetVars, authVars>>

\* get_posterior: 404 when absent, else the result for the stored data.
ApiPosterior(t) ==
  /\ th[t].pc = "start" /\ th[t].op = "posterior"
  /\ LET found == get_experiment(experiments, th[t].name)
         res == posterior_result(heap[found], th[t].variant)
     IN  th' = [th EXCEPT ![t] =
                  IF not_found(found)
                  THEN Respond(t, 404, "not found", <<>>)
                  ELSE Respond(t, res[1], res[2], <<>>)]
  /\ UNCHANGED <<workers, served, experiments, heap, live, undo, call>>
  /\ UNCHANGED <<harnessVars, greetVars, authVars>>

\* The response is sent: the thread is free for the next request.
ApiReply(t) ==
  /\ th[t].pc = "responded"
  /\ th' = [th EXCEPT ![t] = IdleThread]
  /\ undo' = IF th[t].op = "delete" /\ th[t].status = 200
             THEN [undo EXCEPT ![th[t].name] = <<>>]
             ELSE undo
  /\ UNCHANGED <<workers, served, experiments, heap, live, call>>
  /\ UNCHANGED <<harnessVars, greetVars, authVars>>

NextApi ==
  \/ \E t \in Threads : ApiReceive(t)
  \/ \E t \in Threads : ApiList(t)
  \/ \E t \in Threads : ApiCreateCheck(t)
  \/ \E t \in Threads : ApiCreateSave(t)
  \/ \E t \in Threads : ApiGet(t)
  \/ \E t \in Threads : ApiDeleteCheck(t)
  \/ \E t \in Threads : ApiDeleteDo(t)
  \/ \E t \in Threads : ApiAddCheck(t)
  \/ \E t \in Threads : ApiAddExtend(t)
  \/ \E t \in Threads : ApiAddSave(t)
  \/ \E t \in Threads : ApiPosterior(t)
  \/ \E t \in Threads : ApiReply(t)

\* The server alone, the harness not started, requests one at a time.
InitApi ==
  /\ Init
  /\ ~outputDir

SpecApi == InitApi /\ [][NextApi]_vars

\* Some thread has completed the response to an operation in ops.
Responded(t, ops) == th[t].pc = "responded" /\ th[t].op \in ops

\* The names in the listing taken when thread t received its request.
NamesBefore(t) == {th[t].before[i].name : i \in DOMAIN th[t].before}

\* C14: a create request whose name is already in the store is answered
\* with status 400 "already exists", and the store, with the stored
\* experiment's type, description and accumulated data, is as it was when
\* the request arrived.
C14_DuplicateCreateRejected ==
  \A t \in Threads :
    (Responded(t, {"create"}) /\ th[t].name \in NamesBefore(t)) =>
      /\ th[t].status = 400
      /\ th[t].detail = "already exists"
      /\ list_experiments(experiments, heap) = th[t].before

\* A duplicate create that differs in type and description from the stored
\* experiment, which holds data, has been rejected.
C14_Witness ==
  \E t \in Threads :
    /\ Responded(t, {"create"})
    /\ th[t].status = 400
    /\ \E i \in DOMAIN th[t].before :
         /\ th[t].before[i].name = th[t].name
         /\ th[t].before[i].type # th[t].type
         /\ th[t].before[i].description # th[t].description
         /\ th[t].before[i].data # <<>>

\* C15: get, delete, add data and posterior on a name that is not in the
\* store are answered with status 404 and leave the store as it was; add
\* data on an unknown name creates no experiment.
C15_UnknownNameIs404 ==
  \A t \in Threads :
    (Responded(t, {"get", "delete", "add_data", "posterior"})
       /\ th[t].name \notin NamesBefore(t)) =>
      /\ th[t].status = 404
      /\ list_experiments(experiments, heap) = th[t].before

\* Data points sent to an unknown name, beside a stored experiment, have
\* been answered with 404.
C15_Witness ==
  \E t \in Threads :
    /\ Responded(t, {"add_data"})
    /\ th[t].name \notin NamesBefore(t)
    /\ th[t].data # <<>>
    /\ th[t].before # <<>>
    /\ th[t].status = 404

\* C16: after a successful delete of a name, the store is what it was just
\* before the successful create of that name, data added in between
\* included; and the listing is empty whenever every created experiment has
\* been deleted.
C16_DeleteUndoesCreate ==
  /\ \A t \in Threads :
       (Responded(t, {"delete"}) /\ th[t].status = 200
          /\ undo[th[t].name] # <<>>) =>
         list_experiments(experiments, heap) = undo[th[t].name][1]
  /\ live = {} => list_experiments(experiments, heap) = <<>>

\* An experiment created beside another one and given data has been deleted.
C16_Witness ==
  \E t \in Threads :
    /\ Responded(t, {"delete"})
    /\ th[t].status = 200
    /\ undo[th[t].name] # <<>>
    /\ undo[th[t].name][1] # <<>>
    /\ \E i \in DOMAIN th[t].before :
         /\ th[t].before[i].name = th[t].name
         /\ th[t].before[i].data # <<>>

(***************************************************************************)
(* The experiment server with requests that overlap in time                *)
(***************************************************************************)

\* The server alone, every pool thread free to take a request.
InitApiOverlap ==
  /\ HarnessInit
  /\ GreetInit
  /\ AuthInit
  /\ aConf = DefaultConf
  /\ ~outputDir
  /\ workers = Cardinality(Threads)
  /\ ServerInit

SpecApiOverlap == InitApiOverlap /\ [][NextApi]_vars

\* C21: of two create requests for the same new name that are handled at
\* the same time, exactly one succeeds and the other is rejected with 400;
\* the second never replaces the experiment the first has stored.
C21_OneOfTwoCreatesSucceeds ==
  \A t, u \in Threads :
    (/\ t # u
     /\ Responded(t, {"create"}) /\ Responded(u, {"create"})
     /\ th[t].name = th[u].name
     /\ th[t].name \notin NamesBefore(t)
     /\ th[u].name \notin NamesBefore(u)) =>
      {<<th[t].status, th[u].status>>} \subseteq {<<200, 400>>, <<400, 200>>}

\* C22: under any interleaving of requests, a name is in the store only
\* between a successful create of it and the next delete of it that returned
\* "deleted"; an add-data request in flight during the delete does not bring
\* the name back.
C22_PresentOnlyBetweenCreateAndDelete ==
  \A i \in DOMAIN experiments : experiments[i].key \in live

\* The effect of add-data when requests are handled one at a time: the
\* listing after a successful add-data is the listing at its arrival with the
\* payload appended to the named experiment's data, and the response is the
\* experiment as stored.
AddDataAppendsOneAtATime ==
  \A t \in Threads :
    (Responded(t, {"add_data"}) /\ th[t].status = 200) =>
      /\ list_experiments(experiments, heap) =
           [i \in DOMAIN th[t].before |->
              IF th[t].before[i].name = th[t].name
              THEN [th[t].before[i] EXCEPT !.data = @ \o th[t].data]
              ELSE th[t].before[i]]
      /\ \E i \in DOMAIN experiments :
           /\ experiments[i].key = th[t].name
           /\ th[t].body = <<heap[experiments[i].obj]>>

\* Data points have been added to an experiment that held a different data
\* point already, beside another experiment that holds data.
AddDataAppendsWitness ==
  \E t \in Threads :
    /\ Responded(t, {"add_data"})
    /\ th[t].status = 200
    /\ th[t].data # <<>>
    /\ \E i, j \in DOMAIN th[t].before :
         /\ th[t].before[i].name = th[t].name
         /\ th[t].before[i].data # <<>>
         /\ th[t].before[i].data # th[t].data
         /\ th[t].before[j].name # th[t].name
         /\ th[t].before[j].data # <<>>

\* The listing l with data points ps appended to the experiment named n.
WithAppended(l, n, ps) ==
  [i \in DOMAIN l |->
     IF l[i].name = n THEN [l[i] EXCEPT !.data = @ \o ps] ELSE l[i]]

\* C23: every step of an add-data request that ends in success appends the
\* request's data points, in order, after the data stored for the named
\* experiment and changes nothing else: no other experiment, no name, type
\* or description, and no experiment appears or disappears.
C23_AddDataOnlyAppends ==
  [][\A t \in Threads :
       /\ ApiAddExtend(t) =>
            list_experiments(experiments', heap') =
              WithAppended(list_experiments(experiments, heap),
                           th[t].name, th[t].data)
       /\ ApiAddSave(t) =>
            list_experiments(experiments', heap') =
              list_experiments(experiments, heap)]_vars

\* The data points of experiment e that a posterior request for variant v
\* (none when "") is about.
Matching(e, v) ==
  {i \in DOMAIN e.data : v = "" \/ e.data[i].variant = v}

\* C24: a posterior request never modifies the store, and it answers 404 if
\* the name is absent; otherwise 400 if the experiment has no data;
\* otherwise 400 if a variant is given and no data point has it; otherwise
\* 400 if the type is not bernoulli; and a summary only for a bernoulli
\* experiment with at least one matching data point.
C24_PosteriorClassification ==
  \A t \in Threads :
    Responded(t, {"posterior"}) =>
      /\ list_experiments(experiments, heap) = th[t].before
      /\ IF th[t].name \notin NamesBefore(t)
         THEN th[t].status = 404
         ELSE LET e == th[t].before[CHOOSE i \in DOMAIN th[t].before :
                                      th[t].before[i].name = th[t].name]
                  answer == <<th[t].status, th[t].detail>>
              IN  IF e.data = <<>>
                  THEN answer = <<400, "No data available for this experiment">>
                  ELSE IF Matching(e, th[t].variant) = {}
                  THEN answer = <<400, "No data for variant">>
                  ELSE IF e.type # "bernoulli"
                  THEN answer = <<400, "Posterior not implemented for type">>
                  ELSE answer = <<200, "posterior summary">>

\* The posterior of an ab_test experiment that holds data was asked for a
\* variant none of its data points has: the variant decided the answer.
C24_Witness ==
  \E t \in Threads :
    /\ Responded(t, {"posterior"})
    /\ th[t].variant # ""
    /\ th[t].detail = "No data for variant"
    /\ \E i \in DOMAIN th[t].before :
         /\ th[t].before[i].name = th[t].name
         /\ th[t].before[i].type = "ab_test"
         /\ th[t].before[i].data # <<>>

(***************************************************************************)
(* ExperimentStore used directly: any sequence of its four methods         *)
(***************************************************************************)

\* The data of the experiments handed to the store: none or one data point.
SavedData == {<<>>} \cup {<<p>> : p \in DataPoints}

\* store.save_experiment(Experiment(name=..., type=..., description=..., data=...))
StoreSave ==
  /\ \E name \in ExpNames, type \in ExpTypes, description \in Descriptions,
        data \in SavedData :
       LET o == FreeId
           e == [Experiment(name, type, description) EXCEPT !.data = data]
           h == [heap EXCEPT ![o] = e]
       IN  /\ experiments' = save_experiment(experiments, h, o)
           /\ heap' = Collect(h, experiments', th)
           /\ call' = [op |-> "save", name |-> name, ret |-> <<>>]
  /\ UNCHANGED <<workers, served, th, live, undo>>
  /\ UNCHANGED <<harnessVars, greetVars, authVars>>

\* store.delete_experiment(name)
StoreDelete(name) ==
  /\ experiments' = delete_experiment(experiments, name)
  /\ heap' = Collect(heap, experiments', th)
  /\ call' = [op |-> "delete", name |-> name,
              ret |-> <<delete_experiment_result(experiments, name)>>]
  /\ UNCHANGED <<workers, served, th, live, undo>>
  /\ UNCHANGED <<harnessVars, greetVars, authVars>>

\* store.get_experiment(name): the experiment, or nothing
StoreGet(name) ==
  /\ LET found == get_experiment(experiments, name)
     IN  call' = [op |-> "get", name |-> name,
                  ret |-> IF found = 0 THEN <<>> ELSE <<heap[found]>>]
  /\ UNCHANGED <<workers, served, experiments, heap, th, live, undo>>
  /\ UNCHANGED <<harnessVars, greetVars, authVars>>

\* store.list_experiments()
StoreList ==
  /\ call' = [op |-> "list", name |-> "",
              ret |-> list_experiments(experiments, heap)]
  /\ UNCHANGED <<workers, served, experiments, heap, th, live, undo>>
  /\ UNCHANGED <<harnessVars, greetVars, authVars>>

NextStore ==
  \/ StoreSave
  \/ \E name \in ExpNames : StoreDelete(name)
  \/ \E name \in ExpNames : StoreGet(name)
  \/ StoreList

SpecStore == InitApi /\ [][NextStore]_vars

\* Every entry of the store is keyed by its experiment's name, and no two
\* listed experiments have the same name.
KeyedByName ==
  /\ \A i \in DOMAIN experiments :
       heap[experiments[i].obj].name = experiments[i].key
  /\ \A i, j \in DOMAIN experiments :
       i # j => heap[experiments[i].obj].name # heap[experiments[j].obj].name

\* The name is the name of a listed experiment.
Listed(name) ==
  \E i \in DOMAIN experiments : heap[experiments[i].obj].name = name

\* C25: after any sequence of store operations every experiment is held
\* under the key equal to its name and the listing has no name twice;
\* delete_experiment(name) returns True exactly when the name was present
\* before the call, and afterwards get_experiment(name) returns nothing.
C25_StoreKeyedByName ==
  [][/\ KeyedByName'
     /\ \A name \in ExpNames :
          StoreDelete(name) =>
            /\ call'.ret = <<Listed(name)>>
            /\ get_experiment(experiments', name) = 0
     /\ \A name \in ExpNames :
          (StoreGet(name) /\ call.op = "delete" /\ call.name = name) =>
            call'.ret = <<>>]_vars

\* delete_experiment has returned False for a name that was absent, beside
\* a stored experiment that holds data.
C25_Witness ==
  /\ call.op = "delete"
  /\ call.ret = <<FALSE>>
  /\ \E i \in DOMAIN experiments :
       /\ experiments[i].key # call.name
       /\ heap[experiments[i].obj].data # <<>>

====
